---------------------------- MODULE Spec2Model ----------------------------
(***************************************************************************)
(* Kraken: host-health filters (passive failure window, active trend       *)
(* state) and the rendezvous hash ring, modelled from                      *)
(*   src/lib/healthcheck/passive_filter.go  (passiveFilter, state)         *)
(*   src/unnamed/part_000                   (hashring ring)                *)
(* Time is counted in whole seconds.                                       *)
(***************************************************************************)
EXTENDS Integers, Sequences, FiniteSets, TLC

\* The host addresses of the model.
Addrs == {"h1", "h2", "h3"}
\* The addresses the active filter's state is exercised with.
StateAddrs == {"h1", "h2"}

\* ---------------------------------------------------------------- bounds
\* Last second the passive filter's clock reaches in PassiveSpec.
MaxTime == 4
\* Failure timestamps held by the passive filter, over all addresses.
MaxFailures == 3
\* Largest Fails threshold of a PassiveFilterConfig in PassiveSpec.
MaxFails == 2
\* Largest FailTimeout (seconds) of a PassiveFilterConfig in PassiveSpec.
MaxFailTimeout == 2
\* Largest Fails and Passes threshold of a FilterConfig in StateSpec.
MaxThreshold == 2
\* Largest MaxReplica of a ring Config in RingSpec.
MaxMaxReplica == 2
\* Scenario: last second at which a failure is reported.
ScenarioFailPhase == 2
\* Scenario: last second the clock reaches.
ScenarioHorizon == 34
\* Last second the IntervalTrap clock reaches in TrapSpec.
MaxTrapTime == 5
\* Largest interval (seconds) of an IntervalTrap in TrapSpec.
MaxInterval == 2
\* Number of Reload calls that may take the lock in ReloadSpec.
MaxReloads == 3
\* Number of RefreshIntervals that may elapse in MonitorSpec.
MaxFires == 3
\* Number of Failed calls in PassiveLogSpec.
MaxLogged == 3
\* Number of chunks io.Copy writes for a whole blob in BlobSpec.
MaxChunks == 2
\* Number of CreateCacheFile calls in StoreSpec.
MaxCreates == 3

VARIABLES
    \* passiveFilter (passive_filter.go:35-41)
    f_config,      \* f.config: [Fails, FailTimeout]
    clk,           \* f.clk.Now(), in seconds
    f_unhealthy,   \* f.unhealthy: addr -> time it was marked unhealthy
    f_failures,    \* f.failures: addr -> failure timestamps, oldest first
    lastFailed,    \* history: time of the most recent Failed(addr), -1 if none
    failedLog,     \* history (scenario only): the Failed calls, <<addr, time>>
    runResult,     \* what the latest Run returned: [time, addrs, healthy], or NoRun
    \* state (passive_filter.go:130-136)
    s_config,      \* s.config: [Fails, Passes]
    s_all,         \* s.all
    s_healthy,     \* s.healthy
    s_trend,       \* s.trend: addr -> consecutive passes (>0) or fails (<0)
    members,       \* history: the argument of the most recent sync
    streak,        \* history: results in a row per addr since the last sync
    row,           \* history: results in a row per addr, syncs disregarded
    lastOp,        \* history: the latest call, [op, addr]
    \* ring (part_000:57-70)
    r_config,      \* r.config: [MaxReplica]
    r_addrs,       \* r.addrs
    r_hash,        \* r.hash: [nil, nodes], the labels added to the rendezvous hash
    r_healthy,     \* r.healthy
    pc,            \* where each caller of Refresh stands
    latest,        \* Refresh's local latest, per caller
    hash,          \* Refresh's local hash, per caller
    noted,         \* history: per caller and watcher, the sets Refresh passed to Notify
    prior,         \* history: the r.addrs a Refresh that is notifying found changed
    \* IntervalTrap (interval_trap.go:30-36)
    t_interval,    \* t.interval, in seconds
    t_now,         \* t.clk.Now(), in seconds
    t_prev,        \* t.prev
    rw_readers,    \* the embedded RWMutex: callers holding the read lock
    rw_writer,     \* the embedded RWMutex: caller holding the write lock, or NoCaller
    tpc,           \* where each caller of Trap stands
    running,       \* callers inside t.task.Run()
    runStart,      \* history: time the latest task run started, -1 if none
    lastDone,      \* history: time the latest task run returned (construction time if none)
    runs,          \* history: number of task runs that returned
    t_call,        \* history: per caller in Trap, [ready, prev] when the call started
    \* reloadableScheduler (reload.go:31-35)
    rs_scheduler,  \* rs.scheduler: the embedded *scheduler, a scheduler id
    rs_mu,         \* rs.mu: the Reload caller holding it, or NoCaller
    scheds,        \* scheduler id -> [state, config, builtBy, deps, queue]; state "none" if not built
    rpc,           \* where each caller of Reload stands
    rl_config,     \* reload's argument config, per caller
    rl_s,          \* reload's local s, per caller
    rl_n,          \* reload's local n, per caller
    aborted,       \* log.Fatalf has ended the process
    lockSeq,       \* history: number of reload calls that acquired rs.mu
    order,         \* history: per caller, the rank of its call in lock order
    lastReturned,  \* history: the Reload call that returned last, [order, config]
    opc,           \* where each caller of a scheduler operation stands
    opView,        \* history: per operation, [sched, state, after, locks] at its start
    aq_made,       \* number of queues the factory rs.aq has made
    \* Monitor (part_000:140-149)
    mon,           \* where the goroutine running Monitor stands
    stop,          \* the stop channel: "open" or "closed"
    timerFired,    \* the channel of time.After(RefreshInterval) is ready
    fires,         \* history: number of RefreshIntervals that elapsed in a select
    refreshes,     \* history: number of Refresh calls Monitor made
    \* downloadBlobHandler (server.go:117-151), per request
    b_pc,          \* where the handler stands
    b_lookup,      \* what the first cache lookup answered, "none" before it
    b_download,    \* history: what each call of s.sched.Download answered
    b_lookup2,     \* what the cache lookup after Download answered
    b_written,     \* number of chunks of the blob written to the response
    b_result,      \* what the handler returned: "ok", an error, "none" before
    \* patchSchedulerConfigHandler (server.go:193-202), per request
    p_pc,          \* where the handler stands
    p_body,        \* the request body
    p_config,      \* the handler's local config
    p_status,      \* the status the request was answered with, 0 before
    p_reloads,     \* history: number of Reload calls the request made
    \* SimpleStore (simple_store.go:29-33) and CreateCacheFile, per caller
    up_files,      \* the files of the upload directory
    cache_files,   \* the files of the cache
    uuids,         \* number of uuids generated
    c_pc,          \* where the caller of CreateCacheFile stands
    c_name,        \* CreateCacheFile's argument name
    c_tmp,         \* CreateCacheFile's local tmp: <<name, uuid>>
    c_created,     \* history: CreateUploadFile(tmp) succeeded in this call
    c_moveErr,     \* what MoveUploadFileToCache returns: "none" for nil
    c_result       \* what CreateCacheFile returns: "nil" or an error, "none" before

passiveVars ==
    <<f_config, clk, f_unhealthy, f_failures, lastFailed, failedLog, runResult>>

stateVars == <<s_config, s_all, s_healthy, s_trend, members, streak, row, lastOp>>

ringVars == <<r_config, r_addrs, r_hash, r_healthy, pc, latest, hash, noted, prior>>

trapVars ==
    <<t_interval, t_now, t_prev, rw_readers, rw_writer, tpc, running,
      runStart, lastDone, runs, t_call>>

reloadVars ==
    <<rs_scheduler, rs_mu, scheds, rpc, rl_config, rl_s, rl_n, aborted,
      lockSeq, order, lastReturned, opc, opView, aq_made>>

monitorVars == <<mon, stop, timerFired, fires, refreshes>>

blobVars == <<b_pc, b_lookup, b_download, b_lookup2, b_written, b_result>>

patchVars == <<p_pc, p_body, p_config, p_status, p_reloads>>

storeVars ==
    <<up_files, cache_files, uuids, c_pc, c_name, c_tmp, c_created, c_moveErr,
      c_result>>

vars ==
    <<passiveVars, stateVars, ringVars, trapVars, reloadVars, monitorVars, blobVars, patchVars,
      storeVars>>

\* The variables of the components an action of one component leaves alone.
besidesPassive ==
    <<stateVars, ringVars, trapVars, reloadVars, monitorVars, blobVars, patchVars,
      storeVars>>
besidesState ==
    <<passiveVars, ringVars, trapVars, reloadVars, monitorVars, blobVars, patchVars,
      storeVars>>
besidesRing ==
    <<passiveVars, stateVars, trapVars, reloadVars, monitorVars, blobVars, patchVars,
      storeVars>>
besidesTrap ==
    <<passiveVars, stateVars, ringVars, reloadVars, monitorVars, blobVars, patchVars,
      storeVars>>
besidesReload ==
    <<passiveVars, stateVars, ringVars, trapVars, monitorVars, blobVars, patchVars,
      storeVars>>
besidesRingAndMonitor ==
    <<passiveVars, stateVars, trapVars, reloadVars, blobVars, patchVars,
      storeVars>>
besidesBlob ==
    <<passiveVars, stateVars, ringVars, trapVars, reloadVars, monitorVars, patchVars,
      storeVars>>
besidesStore ==
    <<passiveVars, stateVars, ringVars, trapVars, reloadVars, monitorVars, blobVars,
      patchVars>>
besidesReloadAndPatch ==
    <<passiveVars, stateVars, ringVars, trapVars, monitorVars, blobVars,
      storeVars>>

NoRun == [time |-> -1, addrs |-> {}, healthy |-> {}]


\* ================================================ active filter state

\* passive_filter.go:203-215
max(a, b) == IF a > b THEN a ELSE b
min(a, b) == IF a < b THEN a ELSE b

\* A Go map read: the zero value for a missing key.
TrendOf(trend, addr) == IF addr \in DOMAIN trend THEN trend[addr] ELSE 0

\* passive_filter.go:176: max(min(s.trend[addr]-1, -1), -s.config.Fails)
FailedTrendNoClamp(t, fails) == min(t - 1, -1)
FailedTrendNoReset(t, fails) == max(t - 1, -fails)
FailedTrend(t, fails) == max(min(t - 1, -1), -fails)

\* passive_filter.go:188: min(max(s.trend[addr]+1, 1), s.config.Passes)
PassedTrendNoReset(t, passes) == min(t + 1, passes)
PassedTrend(t, passes) == min(max(t + 1, 1), passes)

\* The results in a row after one more pass (n > 0) or fail (n < 0).
StreakAfter(n, pass) ==
    IF pass THEN min((IF n > 0 THEN n ELSE 0) + 1, MaxThreshold)
    ELSE max((IF n < 0 THEN n ELSE 0) - 1, -MaxThreshold)

\* passive_filter.go:150-169: sync sets the current state to addrs.
sync(addrs) ==
    LET added == addrs \ s_all                  \* lines 154-160
        healthy1 == s_healthy \cup added
        dropped == healthy1 \ addrs             \* lines 162-168
    IN /\ s_all' = s_all \cup added
       /\ s_healthy' = healthy1 \ dropped
       /\ s_trend' = [a \in DOMAIN s_trend \ dropped |-> s_trend[a]]
       /\ members' = addrs
       /\ streak' = [a \in StateAddrs |-> 0]
       /\ lastOp' = [op |-> "sync", addr |-> ""]
       /\ UNCHANGED <<s_config, row>>

\* passive_filter.go:172-181: failed marks addr as failed.
failed(addr) ==
    LET t == FailedTrend(TrendOf(s_trend, addr), s_config.Fails)
    IN /\ s_trend' = [a \in DOMAIN s_trend \cup {addr} |->
                         IF a = addr THEN t ELSE s_trend[a]]
       /\ s_healthy' = IF t = -s_config.Fails THEN s_healthy \ {addr} ELSE s_healthy
       /\ streak' = [streak EXCEPT ![addr] = StreakAfter(@, FALSE)]
       /\ row' = [row EXCEPT ![addr] = StreakAfter(@, FALSE)]
       /\ lastOp' = [op |-> "failed", addr |-> addr]
       /\ UNCHANGED <<s_config, s_all, members>>

\* passive_filter.go:184-193: passed marks addr as passed.
passed(addr) ==
    LET t == PassedTrend(TrendOf(s_trend, addr), s_config.Passes)
    IN /\ s_trend' = [a \in DOMAIN s_trend \cup {addr} |->
                         IF a = addr THEN t ELSE s_trend[a]]
       /\ s_healthy' = IF t = s_config.Passes THEN s_healthy \cup {addr} ELSE s_healthy
       /\ streak' = [streak EXCEPT ![addr] = StreakAfter(@, TRUE)]
       /\ row' = [row EXCEPT ![addr] = StreakAfter(@, TRUE)]
       /\ lastOp' = [op |-> "passed", addr |-> addr]
       /\ UNCHANGED <<s_config, s_all, members>>

\* passive_filter.go:196-201: getHealthy returns the current healthy hosts.
getHealthy == s_healthy

\* passive_filter.go:138-145: newState.
StateInit(configs) ==
    /\ s_config \in configs
    /\ s_all = {}
    /\ s_healthy = {}
    /\ s_trend = <<>>
    /\ members = {}
    /\ streak = [a \in StateAddrs |-> 0]
    /\ row = [a \in StateAddrs |-> 0]
    /\ lastOp = [op |-> "new", addr |-> ""]

StateConfigs == [Fails : 1..MaxThreshold, Passes : 1..MaxThreshold]

\* The configuration of the state while another component is explored.
StateParked == [Fails |-> 1, Passes |-> 1]

\* ================================================================ ring

\* The goroutines that call Refresh: Monitor's loop and a direct caller.
Refreshers == {"monitor", "caller"}

\* What r.cluster.Resolve() may return: the ring is documented as always
\* non-empty (part_000:43-45), so the host list never resolves to no host.
Memberships == (SUBSET Addrs) \ {{}}

\* A digest is known by the rendezvous rank it gives the addresses, highest
\* score first (hrw scores every node against the key on its own).
Digests == {d \in [1..Cardinality(Addrs) -> Addrs] : \A i, j \in DOMAIN d : d[i] = d[j] => i = j}

NilHash == [nil |-> TRUE, nodes |-> {}]

\* part_000:69 and :76-78: r.watchers, registered through WithWatcher.
Watchers == {"w1", "w2"}

\* No Notify call made yet by a Refresh.
NoNotes == [w \in Watchers |-> <<>>]

\* part_000:161-164: hrw.NewRendezvousHash, then AddNode for every addr.
NewHash(labels) == [nil |-> FALSE, nodes |-> labels]

\* The first n elements of seq.
FirstN(seq, n) == SubSeq(seq, 1, min(n, Len(seq)))

\* hrw.RendezvousHash.GetOrderedNodes: the n best-scored nodes, best first.
GetOrderedNodes(h, d, n) ==
    LET InHash(a) == a \in h.nodes
    IN FirstN(SelectSeq(d, InHash), n)

\* part_000:120-125: the walk over the ordered nodes, from index i (0-based).
RECURSIVE Walk(_, _, _, _, _)
Walk(nodes, i, locs, healthySet, maxReplica) ==
    IF i < Len(nodes) /\ (Len(locs) = 0 \/ i < maxReplica)
    THEN Walk(nodes, i + 1,
              IF nodes[i + 1] \in healthySet THEN Append(locs, nodes[i + 1]) ELSE locs,
              healthySet, maxReplica)
    ELSE locs

\* part_000:104-127: Locations on a ring [config, addrs, hash, healthy], as
\* [outcome, locs]. outcome is "ok", "fatal" (log.Fatal, line 111) or "panic"
\* (nil r.hash, or nodes[0] of no nodes).
LocationsOf(ring, d) ==
    IF ring.hash.nil THEN [outcome |-> "panic", locs |-> <<>>]
    ELSE LET nodes == GetOrderedNodes(ring.hash, d, Cardinality(ring.addrs))
         IN IF Len(nodes) # Cardinality(ring.addrs)
            THEN [outcome |-> "fatal", locs |-> <<>>]
            ELSE IF Cardinality(ring.healthy) = 0
            THEN IF Len(nodes) = 0
                 THEN [outcome |-> "panic", locs |-> <<>>]
                 ELSE [outcome |-> "ok", locs |-> <<nodes[1]>>]
            ELSE [outcome |-> "ok",
                  locs |-> Walk(nodes, 0, <<>>, ring.healthy, ring.config.MaxReplica)]

\* part_000:57-70: the fields of the ring that Locations reads.
Ring == [config |-> r_config, addrs |-> r_addrs, hash |-> r_hash, healthy |-> r_healthy]

\* part_000:104-127: r.Locations(d).
Locations(d) == LocationsOf(Ring, d)

\* part_000:81-95: the ring New returns for a host list that resolves to
\* members and a filter that returns healthySet (one Refresh on a fresh ring).
NewRing(config, labels, healthySet) ==
    [config |-> config, addrs |-> labels,
     hash |-> IF labels = {} THEN NilHash ELSE NewHash(labels),
     healthy |-> healthySet]

\* part_000:131-136: Contains.
Contains(addr) == addr \in r_addrs

\* part_000:153-157: latest := r.cluster.Resolve(), then r.filter.Run(latest),
\* then hash := r.hash, read without r.mu. Resolve and Run touch no field of
\* the ring, so the step is taken when r.hash is read; what Run returned is
\* used at line 175 only and is drawn there.
RefreshRead(t) ==
    /\ pc[t] = "idle"
    /\ \E l \in Memberships : latest' = [latest EXCEPT ![t] = l]
    /\ hash' = [hash EXCEPT ![t] = r_hash]
    /\ pc' = [pc EXCEPT ![t] = "read"]
    /\ UNCHANGED <<r_config, r_addrs, r_hash, r_healthy, noted, prior>>

\* part_000:158: !stringset.Equal(r.addrs, latest), r.addrs read without r.mu.
MembershipChanged(current, resolved) == current # resolved

\* part_000:158-165: if the membership changed, build a new hash of latest and
\* go on to notify the watchers.
RefreshCompare(t) ==
    /\ pc[t] = "read"
    /\ IF MembershipChanged(r_addrs, latest[t])
       THEN /\ hash' = [hash EXCEPT ![t] = NewHash(latest[t])]
            /\ prior' = [prior EXCEPT ![t] = r_addrs]
            /\ pc' = [pc EXCEPT ![t] = "notify"]
       ELSE /\ pc' = [pc EXCEPT ![t] = "compared"]
            /\ UNCHANGED <<hash, prior>>
    /\ UNCHANGED <<r_config, r_addrs, r_hash, r_healthy, latest, noted>>

\* r.watchers, in the order of the slice.
WatcherList == <<"w1", "w2">>

\* The watchers caller t's Refresh has not called yet.
Unnotified(t) == {i \in DOMAIN WatcherList : noted[t][WatcherList[i]] = <<>>}

\* part_000:167-169: one turn of the loop, w.Notify(latest.Copy()), which has
\* returned when the step is over.
RefreshNotify(t) ==
    /\ pc[t] = "notify"
    /\ LET i == CHOOSE i \in Unnotified(t) : \A j \in Unnotified(t) : i <= j
       IN /\ noted' = [noted EXCEPT ![t][WatcherList[i]] = Append(@, latest[t])]
          /\ IF Unnotified(t) = {i}
             THEN /\ pc' = [pc EXCEPT ![t] = "compared"]
                  /\ prior' = [prior EXCEPT ![t] = {}]
             ELSE UNCHANGED <<pc, prior>>
    /\ UNCHANGED <<r_config, r_addrs, r_hash, r_healthy, latest, hash>>

\* part_000:172-176: publish addrs, hash and healthy under r.mu; healthy is
\* what r.filter.Run(latest) returned at line 155, a subset of latest.
RefreshPublish(t) ==
    /\ pc[t] = "compared"
    /\ r_addrs' = latest[t]
    /\ r_hash' = hash[t]
    /\ \E healthy \in SUBSET latest[t] : r_healthy' = healthy
    /\ pc' = [pc EXCEPT ![t] = "idle"]
    /\ latest' = [latest EXCEPT ![t] = {}]
    /\ hash' = [hash EXCEPT ![t] = NilHash]
    /\ noted' = [noted EXCEPT ![t] = NoNotes]
    /\ UNCHANGED <<r_config, prior>>

\* part_000:81-95: New runs one Refresh on the fresh ring (r.addrs and r.hash
\* are nil, and stringset.Equal(nil, latest) holds for an empty latest).
RingInit(replicas, memberships) ==
    /\ r_config \in [MaxReplica : replicas]
    /\ r_addrs \in memberships
    /\ r_hash = IF r_addrs = {} THEN NilHash ELSE NewHash(r_addrs)
    /\ r_healthy \in SUBSET r_addrs
    /\ pc = [t \in Refreshers |-> "idle"]
    /\ latest = [t \in Refreshers |-> {}]
    /\ hash = [t \in Refreshers |-> NilHash]
    /\ noted = [t \in Refreshers |-> NoNotes]
    /\ prior = [t \in Refreshers |-> {}]

\* The ring while another component is explored.
RingParked == RingInit({1}, {Addrs}) /\ r_healthy = Addrs

\* ============================================================= Monitor

\* part_000:143: case <-stop is ready once the stop channel is closed.
StopNeverReady == FALSE
StopReady == stop = "closed"

\* part_000:141-145: Monitor enters the select with a new time.After timer. A
\* closed stop channel is ready at once and the new timer is not, so Monitor
\* returns; else it blocks.
MonitorSelect ==
    /\ mon = "select"
    /\ mon' = IF StopReady THEN "returned" ELSE "blocked"
    /\ timerFired' = FALSE
    /\ UNCHANGED <<stop, fires, refreshes>>

\* part_000:145: RefreshInterval elapses while Monitor is blocked in the select.
TimerFires ==
    /\ mon = "blocked"
    /\ ~timerFired
    /\ fires < MaxFires
    /\ timerFired' = TRUE
    /\ fires' = fires + 1
    /\ UNCHANGED <<mon, stop, refreshes>>

\* part_000:143-144: case <-stop: return.
MonitorStopCase ==
    /\ mon = "blocked"
    /\ StopReady
    /\ mon' = "returned"
    /\ UNCHANGED <<stop, timerFired, fires, refreshes>>

\* part_000:145-146: case <-time.After(r.config.RefreshInterval): r.Refresh().
MonitorTimerCase ==
    /\ mon = "blocked"
    /\ timerFired
    /\ mon' = "refresh"
    /\ refreshes' = refreshes + 1
    /\ UNCHANGED <<stop, timerFired, fires>>

\* part_000:146: the steps of the Refresh that Monitor called.
MonitorRefreshRead ==
    /\ mon = "refresh"
    /\ RefreshRead("monitor")
    /\ UNCHANGED monitorVars

MonitorRefreshCompare ==
    /\ mon = "refresh"
    /\ RefreshCompare("monitor")
    /\ UNCHANGED monitorVars

MonitorRefreshNotify ==
    /\ mon = "refresh"
    /\ RefreshNotify("monitor")
    /\ UNCHANGED monitorVars

\* part_000:146 and :141: Refresh returns and the loop enters the select again.
MonitorRefreshPublish ==
    /\ mon = "refresh"
    /\ RefreshPublish("monitor")
    /\ mon' = "select"
    /\ UNCHANGED <<stop, timerFired, fires, refreshes>>

\* The owner of the ring closes the stop channel.
CloseStop ==
    /\ stop = "open"
    /\ stop' = "closed"
    /\ UNCHANGED <<mon, timerFired, fires, refreshes>>

\* part_000:140: Monitor(stop) has just been called.
MonitorInit ==
    /\ mon = "select"
    /\ stop = "open"
    /\ timerFired = FALSE
    /\ fires = 0
    /\ refreshes = 0

\* ======================================================== IntervalTrap

\* Goroutines that call Trap.
TrapCallers == {"g1", "g2", "g3"}

NoCaller == "none"

\* interval_trap.go:50-52: t.clk.Now().After(t.prev.Add(t.interval))
readyNotStrict == t_now >= t_prev + t_interval
readyLate == t_now > t_prev + t_interval + 1
ready == t_now > t_prev + t_interval

NotInTrap == [ready |-> FALSE, prev |-> -1]

\* interval_trap.go:57: a goroutine calls Trap.
TrapCall(g) ==
    /\ tpc[g] = "idle"
    /\ tpc' = [tpc EXCEPT ![g] = "called"]
    /\ t_call' = [t_call EXCEPT ![g] =
            [ready |-> t_now > t_prev + t_interval, prev |-> t_prev]]
    /\ UNCHANGED <<t_interval, t_now, t_prev, rw_readers, rw_writer, running,
                   runStart, lastDone, runs>>

\* interval_trap.go:58: t.RLock() is granted while no writer holds the lock.
TrapRLock(g) ==
    /\ tpc[g] = "called"
    /\ rw_writer = NoCaller
    /\ rw_readers' = rw_readers \cup {g}
    /\ tpc' = [tpc EXCEPT ![g] = "rlocked"]
    /\ UNCHANGED <<t_interval, t_now, t_prev, rw_writer, running, runStart,
                   lastDone, runs, t_call>>

\* interval_trap.go:59-63: ready := t.ready(); t.RUnlock(); return if !ready.
TrapReadCheck(g) ==
    /\ tpc[g] = "rlocked"
    /\ rw_readers' = rw_readers \ {g}
    /\ tpc' = [tpc EXCEPT ![g] = IF ready THEN "wantLock" ELSE "idle"]
    /\ t_call' = IF ready THEN t_call ELSE [t_call EXCEPT ![g] = NotInTrap]
    /\ UNCHANGED <<t_interval, t_now, t_prev, rw_writer, running, runStart,
                   lastDone, runs>>

\* interval_trap.go:65: t.Lock() is granted while nobody holds the lock.
TrapLock(g) ==
    /\ tpc[g] = "wantLock"
    /\ rw_writer = NoCaller
    /\ rw_readers = {}
    /\ rw_writer' = g
    /\ tpc' = [tpc EXCEPT ![g] = "locked"]
    /\ UNCHANGED <<t_interval, t_now, t_prev, rw_readers, running, runStart,
                   lastDone, runs, t_call>>

\* interval_trap.go:67-70: under the write lock, return (deferred Unlock) if
\* not ready any more, else enter t.task.Run().
TrapRecheck(g) ==
    /\ tpc[g] = "locked"
    /\ IF ready
       THEN /\ running' = running \cup {g}
            /\ runStart' = t_now
            /\ tpc' = [tpc EXCEPT ![g] = "running"]
            /\ UNCHANGED <<rw_writer, t_call>>
       ELSE /\ rw_writer' = NoCaller
            /\ tpc' = [tpc EXCEPT ![g] = "idle"]
            /\ t_call' = [t_call EXCEPT ![g] = NotInTrap]
            /\ UNCHANGED <<running, runStart>>
    /\ UNCHANGED <<t_interval, t_now, t_prev, rw_readers, lastDone, runs>>

\* interval_trap.go:70: t.task.Run() returns.
TaskReturns(g) ==
    /\ tpc[g] = "running"
    /\ running' = running \ {g}
    /\ lastDone' = t_now
    /\ runs' = runs + 1
    /\ tpc' = [tpc EXCEPT ![g] = "ran"]
    /\ UNCHANGED <<t_interval, t_now, t_prev, rw_readers, rw_writer, runStart,
                   t_call>>

\* interval_trap.go:66 and :71: t.prev = t.clk.Now(), then the deferred Unlock.
TrapSetPrev(g) ==
    /\ tpc[g] = "ran"
    /\ t_prev' = t_now
    /\ rw_writer' = NoCaller
    /\ tpc' = [tpc EXCEPT ![g] = "idle"]
    /\ t_call' = [t_call EXCEPT ![g] = NotInTrap]
    /\ UNCHANGED <<t_interval, t_now, rw_readers, running, runStart, lastDone, runs>>

\* The clock of the trap advances by a second.
TrapTick ==
    /\ t_now < MaxTrapTime
    /\ t_now' = t_now + 1
    /\ UNCHANGED <<t_interval, t_prev, rw_readers, rw_writer, tpc, running,
                   runStart, lastDone, runs, t_call>>

\* interval_trap.go:39-48: NewIntervalTrap, prev = clk.Now().
TrapInit(intervals) ==
    /\ t_interval \in intervals
    /\ t_now = 0
    /\ t_prev = 0
    /\ rw_readers = {}
    /\ rw_writer = NoCaller
    /\ tpc = [g \in TrapCallers |-> "idle"]
    /\ running = {}
    /\ runStart = -1
    /\ lastDone = 0
    /\ runs = 0
    /\ t_call = [g \in TrapCallers |-> NotInTrap]

\* The trap while another component is explored.
TrapParked == TrapInit({1})

\* ================================================= reloadableScheduler

\* Goroutines that call Reload (agentserver/server.go:193-202, one per request).
Reloaders == {"p1", "p2"}

\* Goroutines that call an operation of the scheduler, such as Download
\* (agentserver/server.go:122).
Operators == {"o1"}

\* Scheduler configurations; "c0" is the one the process started with.
Configs == {"c1", "c2"}

SchedIds == 0..MaxReloads

\* reload.go:59-60: the long-lived dependencies a scheduler is built around.
NoDeps ==
    [torrentArchive |-> "none", stats |-> "none", pctx |-> "none",
     announceClient |-> "none", netevents |-> "none"]

\* The dependencies of the scheduler the process started.
Deps0 ==
    [torrentArchive |-> "archive", stats |-> "stats", pctx |-> "pctx",
     announceClient |-> "announceClient", netevents |-> "netevents"]

\* reload.go:59-60: the fields of s that reload hands to newScheduler.
DepsFresh(sch) == NoDeps
DepsOf(sch) == sch.deps

NoSched ==
    [state |-> "none", config |-> "none", builtBy |-> -1, deps |-> NoDeps,
     queue |-> -1]

NoCall == [order |-> 0, config |-> "c0"]

NoView == [sched |-> -1, state |-> "none", after |-> NoCall, locks |-> 0]

\* The schedulers in the started-and-not-stopped state.
Started == {i \in SchedIds : scheds[i].state = "started"}

\* reload.go:57: s.Stop() leaves scheduler i stopped.
Stop(sch, i) == [sch EXCEPT ![i].state = "stopped"]

\* reload.go:33 and :53: rs.mu.Lock() is granted while nobody holds rs.mu.
LockIgnored(mu) == TRUE
LockFree(mu) == mu = NoCaller

\* reload.go:53: rs.mu.Lock(), at the start of reload(config).
ReloadLock(p, c) ==
    /\ ~aborted
    /\ rpc[p] = "idle"
    /\ lockSeq < MaxReloads
    /\ LockFree(rs_mu)
    /\ rs_mu' = p
    /\ rl_config' = [rl_config EXCEPT ![p] = c]
    /\ lockSeq' = lockSeq + 1
    /\ order' = [order EXCEPT ![p] = lockSeq + 1]
    /\ rpc' = [rpc EXCEPT ![p] = "locked"]
    /\ UNCHANGED <<rs_scheduler, scheds, rl_s, rl_n, aborted, lastReturned,
                   opc, opView, aq_made>>

\* reload.go:56-57: s := rs.scheduler; s.Stop().
ReloadStopSkipped(p) ==
    /\ ~aborted
    /\ rpc[p] = "locked"
    /\ rl_s' = [rl_s EXCEPT ![p] = rs_scheduler]
    /\ rpc' = [rpc EXCEPT ![p] = "stopped"]
    /\ UNCHANGED <<rs_scheduler, rs_mu, scheds, rl_config, rl_n, aborted, lockSeq,
                   order, lastReturned, opc, opView, aq_made>>
ReloadStop(p) ==
    /\ ~aborted
    /\ rpc[p] = "locked"
    /\ rl_s' = [rl_s EXCEPT ![p] = rs_scheduler]
    /\ scheds' = Stop(scheds, rs_scheduler)
    /\ rpc' = [rpc EXCEPT ![p] = "stopped"]
    /\ UNCHANGED <<rs_scheduler, rs_mu, rl_config, rl_n, aborted, lockSeq,
                   order, lastReturned, opc, opView, aq_made>>

\* reload.go:59-60: n, err := newScheduler(config, ...) with err == nil.
ReloadConstruct(p) ==
    /\ ~aborted
    /\ rpc[p] = "stopped"
    /\ LET i == order[p]
       IN /\ scheds' = [scheds EXCEPT ![i] = [state |-> "built",
                                                config |-> rl_config[p],
                                                builtBy |-> order[p],
                                                deps |-> DepsOf(scheds[rl_s[p]]),
                                                queue |-> -1]]
          /\ rl_n' = [rl_n EXCEPT ![p] = i]
    /\ rpc' = [rpc EXCEPT ![p] = "built"]
    /\ UNCHANGED <<rs_scheduler, rs_mu, rl_config, rl_s, aborted, lockSeq,
                   order, lastReturned, opc, opView, aq_made>>

\* reload.go:61-63 and :54: newScheduler fails; reload returns the error and
\* the deferred Unlock runs.
ReloadConstructFails(p) ==
    /\ ~aborted
    /\ rpc[p] = "stopped"
    /\ rs_mu' = NoCaller
    /\ rpc' = [rpc EXCEPT ![p] = "failing"]
    /\ UNCHANGED <<rs_scheduler, scheds, rl_config, rl_s, rl_n, aborted,
                   lockSeq, order, lastReturned, opc, opView, aq_made>>

\* reload.go:64: rs.scheduler = n.
ReloadInstallSkipped(p) ==
    /\ ~aborted
    /\ rpc[p] = "built"
    /\ rpc' = [rpc EXCEPT ![p] = "installed"]
    /\ UNCHANGED <<rs_scheduler, rs_mu, scheds, rl_config, rl_s, rl_n, aborted,
                   lockSeq, order, lastReturned, opc, opView, aq_made>>
ReloadInstall(p) ==
    /\ ~aborted
    /\ rpc[p] = "built"
    /\ rs_scheduler' = rl_n[p]
    /\ rpc' = [rpc EXCEPT ![p] = "installed"]
    /\ UNCHANGED <<rs_mu, scheds, rl_config, rl_s, rl_n, aborted, lockSeq,
                   order, lastReturned, opc, opView, aq_made>>

\* reload.go:66: rs.scheduler.start(rs.aq()) with err == nil.
ReloadStart(p) ==
    /\ ~aborted
    /\ rpc[p] = "installed"
    /\ aq_made' = aq_made + 1
    /\ scheds' = [scheds EXCEPT ![rs_scheduler].state = "started",
                                ![rs_scheduler].queue = aq_made + 1]
    /\ rpc' = [rpc EXCEPT ![p] = "started"]
    /\ UNCHANGED <<rs_scheduler, rs_mu, rl_config, rl_s, rl_n, aborted,
                   lockSeq, order, lastReturned, opc, opView>>

\* reload.go:66-68 and :54: start, handed the queue rs.aq() made, fails;
\* reload returns the error and the deferred Unlock runs.
ReloadStartFails(p) ==
    /\ ~aborted
    /\ rpc[p] = "installed"
    /\ aq_made' = aq_made + 1
    /\ scheds' = [scheds EXCEPT ![rs_scheduler].queue = aq_made + 1]
    /\ rs_mu' = NoCaller
    /\ rpc' = [rpc EXCEPT ![p] = "failing"]
    /\ UNCHANGED <<rs_scheduler, rl_config, rl_s, rl_n, aborted,
                   lockSeq, order, lastReturned, opc, opView>>

\* reload.go:69 and :54: return nil; the deferred Unlock runs.
ReloadUnlock(p) ==
    /\ ~aborted
    /\ rpc[p] = "started"
    /\ rs_mu' = NoCaller
    /\ rpc' = [rpc EXCEPT ![p] = "unlocked"]
    /\ UNCHANGED <<rs_scheduler, scheds, rl_config, rl_s, rl_n, aborted,
                   lockSeq, order, lastReturned, opc, opView, aq_made>>

\* reload.go:43-49: reload returned nil, so Reload returns to its caller.
ReloadReturn(p) ==
    /\ ~aborted
    /\ rpc[p] = "unlocked"
    /\ lastReturned' = [order |-> order[p], config |-> rl_config[p]]
    /\ rpc' = [rpc EXCEPT ![p] = "idle"]
    /\ UNCHANGED <<rs_scheduler, rs_mu, scheds, rl_config, rl_s, rl_n,
                   aborted, lockSeq, order, opc, opView, aq_made>>

\* reload.go:44-48: reload returned an error; log.Fatalf ends the process.
ReloadFatalSwallowed(p) ==
    /\ ~aborted
    /\ rpc[p] = "failing"
    /\ rpc' = [rpc EXCEPT ![p] = "idle"]
    /\ UNCHANGED <<rs_scheduler, rs_mu, scheds, rl_config, rl_s, rl_n, aborted,
                   lockSeq, order, lastReturned, opc, opView, aq_made>>
ReloadFatal(p) ==
    /\ ~aborted
    /\ rpc[p] = "failing"
    /\ aborted' = TRUE
    /\ UNCHANGED <<rs_scheduler, rs_mu, scheds, rpc, rl_config, rl_s, rl_n,
                   lockSeq, order, lastReturned, opc, opView, aq_made>>

\* reload.go:32: an operation promoted from the embedded *scheduler starts on
\* the scheduler rs.scheduler points at (read without rs.mu).
OpStart(o) ==
    /\ ~aborted
    /\ opc[o] = "idle"
    /\ opView' = [opView EXCEPT ![o] = [sched |-> rs_scheduler,
                                        state |-> scheds[rs_scheduler].state,
                                        after |-> lastReturned,
                                        locks |-> lockSeq]]
    /\ opc' = [opc EXCEPT ![o] = "executing"]
    /\ UNCHANGED <<rs_scheduler, rs_mu, scheds, rpc, rl_config, rl_s, rl_n,
                   aborted, lockSeq, order, lastReturned, aq_made>>

\* The operation returns.
OpEnd(o) ==
    /\ ~aborted
    /\ opc[o] = "executing"
    /\ opView' = [opView EXCEPT ![o] = NoView]
    /\ opc' = [opc EXCEPT ![o] = "idle"]
    /\ UNCHANGED <<rs_scheduler, rs_mu, scheds, rpc, rl_config, rl_s, rl_n,
                   aborted, lockSeq, order, lastReturned, aq_made>>

\* reload.go:37-39: makeReloadable(s, aq) around the scheduler the process
\* started, which is scheduler 0 with configuration "c0".
ReloadInit ==
    /\ rs_scheduler = 0
    /\ rs_mu = NoCaller
    /\ scheds = [i \in SchedIds |->
                    IF i = 0
                    THEN [state |-> "started", config |-> "c0", builtBy |-> 0,
                          deps |-> Deps0, queue |-> 0]
                    ELSE NoSched]
    /\ rpc = [p \in Reloaders |-> "idle"]
    /\ rl_config = [p \in Reloaders |-> "c0"]
    /\ rl_s = [p \in Reloaders |-> -1]
    /\ rl_n = [p \in Reloaders |-> -1]
    /\ aborted = FALSE
    /\ lockSeq = 0
    /\ order = [p \in Reloaders |-> 0]
    /\ lastReturned = NoCall
    /\ opc = [o \in Operators |-> "idle"]
    /\ opView = [o \in Operators |-> NoView]
    /\ aq_made = 0

\* ====================================================== Server.patchSchedulerConfigHandler
\* The Reload callers are the goroutines serving PATCH /x/config/scheduler.
\* A request body is JSON text; json.Decode turns it into a Config or fails.
Bodies == {"{c1}", "{c2}", "{c1", ""}

NoConfig == "none"

JsonDecodeLenient(body) ==
    [err |-> FALSE, config |-> IF body \in {"{c2}"} THEN "c2" ELSE "c1"]

\* json.NewDecoder(r.Body).Decode(&config)
JsonDecode(body) ==
    CASE body = "{c1}" -> [err |-> FALSE, config |-> "c1"]
      [] body = "{c2}" -> [err |-> FALSE, config |-> "c2"]
      [] OTHER -> [err |-> TRUE, config |-> NoConfig]

\* The server hands a request to the handler.
PatchReceive(p, body) ==
    /\ ~aborted
    /\ p_pc[p] \in {"idle", "returned"}
    /\ p_pc' = [p_pc EXCEPT ![p] = "received"]
    /\ p_body' = [p_body EXCEPT ![p] = body]
    /\ p_config' = [p_config EXCEPT ![p] = NoConfig]
    /\ p_status' = [p_status EXCEPT ![p] = 0]
    /\ p_reloads' = [p_reloads EXCEPT ![p] = 0]

\* server.go:195-198: decode the body; an error is answered with 400.
PatchDecode(p) ==
    /\ ~aborted
    /\ p_pc[p] = "received"
    /\ LET d == JsonDecode(p_body[p])
       IN  IF d.err
           THEN /\ p_pc' = [p_pc EXCEPT ![p] = "returned"]
                /\ p_status' = [p_status EXCEPT ![p] = 400]
                /\ UNCHANGED p_config
           ELSE /\ p_pc' = [p_pc EXCEPT ![p] = "decoded"]
                /\ p_config' = [p_config EXCEPT ![p] = d.config]
                /\ UNCHANGED p_status
    /\ UNCHANGED <<p_body, p_reloads>>

\* server.go:199: s.sched.Reload(config) is called.
PatchCallReload(p) ==
    /\ ~aborted
    /\ p_pc[p] = "decoded"
    /\ p_pc' = [p_pc EXCEPT ![p] = "reloading"]
    /\ p_reloads' = [p_reloads EXCEPT ![p] = @ + 1]
    /\ UNCHANGED <<p_body, p_config, p_status>>

\* The Reload call of the handler takes rs.mu.
PatchReloadLock(p) ==
    /\ p_pc[p] = "reloading"
    /\ ReloadLock(p, p_config[p])
    /\ UNCHANGED <<p_pc, p_body, p_config, p_status, p_reloads>>

\* server.go:199-201: Reload returned; the handler returns nil, a 200.
PatchReturn(p) ==
    /\ p_pc[p] = "reloading"
    /\ ReloadReturn(p)
    /\ p_pc' = [p_pc EXCEPT ![p] = "returned"]
    /\ p_status' = [p_status EXCEPT ![p] = 200]
    /\ UNCHANGED <<p_body, p_config, p_reloads>>

PatchInit ==
    /\ p_pc = [p \in Reloaders |-> "idle"]
    /\ p_body = [p \in Reloaders |-> ""]
    /\ p_config = [p \in Reloaders |-> NoConfig]
    /\ p_status = [p \in Reloaders |-> 0]
    /\ p_reloads = [p \in Reloaders |-> 0]

\* ====================================================== Server.downloadBlobHandler
\* One goroutine per GET /namespace/{namespace}/blobs/{digest} request.
BlobRequests == {"b1", "b2"}

\* What a cache lookup s.cads.Cache().GetFileReader answers.
LookupResults == {"hit", "notExist", "inDownload", "otherErr"}

\* What s.sched.Download answers.
DownloadResults == {"ok", "ErrTorrentNotFound", "otherErr"}

ShouldDownloadAny(err) == err # "hit"

\* os.IsNotExist(err) || s.cads.InDownloadError(err)
ShouldDownload(err) == err \in {"notExist", "inDownload"}

\* httputil.ParseParam and parseDigest; a digest that does not parse is a 400.
BlobParse(b, res) ==
    /\ b_pc[b] = "received"
    /\ IF res = "ok"
       THEN b_pc' = [b_pc EXCEPT ![b] = "parsed"] /\ UNCHANGED b_result
       ELSE /\ b_pc' = [b_pc EXCEPT ![b] = "returned"]
            /\ b_result' = [b_result EXCEPT ![b] = res]
    /\ UNCHANGED <<b_lookup, b_download, b_lookup2, b_written>>

\* f, err := s.cads.Cache().GetFileReader(d.Hex()), and the branch on err.
BlobLookup(b, res) ==
    /\ b_pc[b] = "parsed"
    /\ b_lookup' = [b_lookup EXCEPT ![b] = res]
    /\ IF res = "hit"
       THEN b_pc' = [b_pc EXCEPT ![b] = "copying"] /\ UNCHANGED b_result
       ELSE IF ShouldDownload(res)
       THEN b_pc' = [b_pc EXCEPT ![b] = "download"] /\ UNCHANGED b_result
       ELSE /\ b_pc' = [b_pc EXCEPT ![b] = "returned"]
            /\ b_result' = [b_result EXCEPT ![b] = "store: 500"]
    /\ UNCHANGED <<b_download, b_lookup2, b_written>>

\* s.sched.Download(namespace, d), and the branch on its error.
BlobDownload(b, res) ==
    /\ b_pc[b] = "download"
    /\ b_download' = [b_download EXCEPT ![b] = Append(@, res)]
    /\ IF res = "ok"
       THEN b_pc' = [b_pc EXCEPT ![b] = "relookup"] /\ UNCHANGED b_result
       ELSE /\ b_pc' = [b_pc EXCEPT ![b] = "returned"]
            /\ b_result' = [b_result EXCEPT ![b] =
                    IF res = "ErrTorrentNotFound" THEN "404" ELSE "download torrent: 500"]
    /\ UNCHANGED <<b_lookup, b_lookup2, b_written>>

\* The cache is read again after Download returned nil.
BlobRelookup(b, res) ==
    /\ b_pc[b] = "relookup"
    /\ b_lookup2' = [b_lookup2 EXCEPT ![b] = res]
    /\ IF res = "hit"
       THEN b_pc' = [b_pc EXCEPT ![b] = "copying"] /\ UNCHANGED b_result
       ELSE /\ b_pc' = [b_pc EXCEPT ![b] = "returned"]
            /\ b_result' = [b_result EXCEPT ![b] = "store: 500"]
    /\ UNCHANGED <<b_lookup, b_download, b_written>>

\* io.Copy(w, f) writes the next chunk of the blob to the response.
BlobCopyChunk(b) ==
    /\ b_pc[b] = "copying"
    /\ b_written[b] < MaxChunks
    /\ b_written' = [b_written EXCEPT ![b] = @ + 1]
    /\ UNCHANGED <<b_pc, b_lookup, b_download, b_lookup2, b_result>>

\* io.Copy returns: nil at the end of the file, or the error of a read or write.
BlobCopyReturns(b, res) ==
    /\ b_pc[b] = "copying"
    /\ res = "ok" => b_written[b] = MaxChunks
    /\ b_pc' = [b_pc EXCEPT ![b] = "returned"]
    /\ b_result' = [b_result EXCEPT ![b] = res]
    /\ UNCHANGED <<b_lookup, b_download, b_lookup2, b_written>>

BlobInit ==
    /\ b_pc = [b \in BlobRequests |-> "received"]
    /\ b_lookup = [b \in BlobRequests |-> "none"]
    /\ b_download = [b \in BlobRequests |-> <<>>]
    /\ b_lookup2 = [b \in BlobRequests |-> "none"]
    /\ b_written = [b \in BlobRequests |-> 0]
    /\ b_result = [b \in BlobRequests |-> "none"]

\* ====================================================== SimpleStore.CreateCacheFile
\* Goroutines calling CreateCacheFile, and the names they create.
Creators == {"k1", "k2"}
FileNames == {"f1", "f2"}

NoTmp == <<"", 0>>

\* os.IsExist(err)
IsExist(err) == err = "exist"

\* uploadStore.DeleteUploadFile(name): the file is gone from the upload
\* directory afterwards; its error is dropped by the defer statements.
DeleteUploadFile(files, name) == files \ {name}

DeferredDeleteDropped(files, name) == files

\* simple_store.go:90: defer s.DeleteUploadFile(tmp)
DeferredDelete(files, name) == DeleteUploadFile(files, name)

\* simple_store.go:86: tmp := name + "." + a fresh uuid.
CreateCall(k, name) ==
    /\ c_pc[k] \in {"idle", "returned"}
    /\ uuids < MaxCreates
    /\ uuids' = uuids + 1
    /\ c_name' = [c_name EXCEPT ![k] = name]
    /\ c_tmp' = [c_tmp EXCEPT ![k] = <<name, uuids + 1>>]
    /\ c_created' = [c_created EXCEPT ![k] = FALSE]
    /\ c_moveErr' = [c_moveErr EXCEPT ![k] = "none"]
    /\ c_result' = [c_result EXCEPT ![k] = "none"]
    /\ c_pc' = [c_pc EXCEPT ![k] = "create"]
    /\ UNCHANGED <<up_files, cache_files>>

\* simple_store.go:87-89: s.CreateUploadFile(tmp, 0); on error return, no
\* defer registered yet.
CreateUpload(k, ok) ==
    /\ c_pc[k] = "create"
    /\ IF ok
       THEN /\ up_files' = up_files \cup {c_tmp[k]}
            /\ c_created' = [c_created EXCEPT ![k] = TRUE]
            /\ c_pc' = [c_pc EXCEPT ![k] = "writer"]
            /\ UNCHANGED c_result
       ELSE /\ c_result' = [c_result EXCEPT ![k] = "create upload file"]
            /\ c_pc' = [c_pc EXCEPT ![k] = "returned"]
            /\ UNCHANGED <<up_files, c_created>>
    /\ UNCHANGED <<cache_files, uuids, c_name, c_tmp, c_moveErr>>

\* simple_store.go:92-95: s.GetUploadFileReadWriter(tmp).
CreateWriter(k, ok) ==
    /\ c_pc[k] = "writer"
    /\ IF ok
       THEN c_pc' = [c_pc EXCEPT ![k] = "copy"] /\ UNCHANGED c_result
       ELSE /\ c_result' = [c_result EXCEPT ![k] = "get upload writer"]
            /\ c_pc' = [c_pc EXCEPT ![k] = "deferred"]
    /\ UNCHANGED <<up_files, cache_files, uuids, c_name, c_tmp, c_created, c_moveErr>>

\* simple_store.go:98-100: io.Copy(w, r).
CreateCopy(k, ok) ==
    /\ c_pc[k] = "copy"
    /\ IF ok
       THEN c_pc' = [c_pc EXCEPT ![k] = "path"] /\ UNCHANGED c_result
       ELSE /\ c_result' = [c_result EXCEPT ![k] = "copy"]
            /\ c_pc' = [c_pc EXCEPT ![k] = "deferred"]
    /\ UNCHANGED <<up_files, cache_files, uuids, c_name, c_tmp, c_created, c_moveErr>>

\* simple_store.go:76-79: MoveUploadFileToCache looks up the upload path and
\* returns the error of the lookup, no defer registered yet.
MoveGetFilePath(k, ok) ==
    /\ c_pc[k] = "path"
    /\ IF ok
       THEN c_pc' = [c_pc EXCEPT ![k] = "move"] /\ UNCHANGED c_moveErr
       ELSE /\ c_moveErr' = [c_moveErr EXCEPT ![k] = "path"]
            /\ c_pc' = [c_pc EXCEPT ![k] = "moved"]
    /\ UNCHANGED <<up_files, cache_files, uuids, c_name, c_tmp, c_created, c_result>>

\* simple_store.go:81: cacheStore MoveFileFrom(cacheName, state, uploadPath):
\* an error for which os.IsExist holds if the cache file exists, else the file
\* leaves the upload directory for the cache, or another error.
MoveFileFrom(k, ok) ==
    /\ c_pc[k] = "move"
    /\ IF c_name[k] \in cache_files
       THEN /\ c_moveErr' = [c_moveErr EXCEPT ![k] = "exist"]
            /\ UNCHANGED <<up_files, cache_files>>
       ELSE IF ok
       THEN /\ up_files' = up_files \ {c_tmp[k]}
            /\ cache_files' = cache_files \cup {c_name[k]}
            /\ UNCHANGED c_moveErr
       ELSE /\ c_moveErr' = [c_moveErr EXCEPT ![k] = "rename"]
            /\ UNCHANGED <<up_files, cache_files>>
    /\ c_pc' = [c_pc EXCEPT ![k] = "moveDeferred"]
    /\ UNCHANGED <<uuids, c_name, c_tmp, c_created, c_result>>

\* simple_store.go:80: defer s.DeleteUploadFile(uploadName) of
\* MoveUploadFileToCache runs, and MoveUploadFileToCache returns.
MoveDeferred(k) ==
    /\ c_pc[k] = "moveDeferred"
    /\ up_files' = DeleteUploadFile(up_files, c_tmp[k])
    /\ c_pc' = [c_pc EXCEPT ![k] = "moved"]
    /\ UNCHANGED <<cache_files, uuids, c_name, c_tmp, c_created, c_moveErr, c_result>>

\* simple_store.go:102-105: err != nil && !os.IsExist(err) is an error of
\* CreateCacheFile, anything else is success.
CreateAfterMove(k) ==
    /\ c_pc[k] = "moved"
    /\ c_result' = [c_result EXCEPT ![k] =
            IF c_moveErr[k] # "none" /\ ~IsExist(c_moveErr[k])
            THEN "move upload file to cache" ELSE "nil"]
    /\ c_pc' = [c_pc EXCEPT ![k] = "deferred"]
    /\ UNCHANGED <<up_files, cache_files, uuids, c_name, c_tmp, c_created, c_moveErr>>

\* simple_store.go:96 and :90: the deferred w.Close() and DeleteUploadFile(tmp)
\* run, last registered first, and CreateCacheFile returns.
CreateDeferred(k) ==
    /\ c_pc[k] = "deferred"
    /\ up_files' = DeferredDelete(up_files, c_tmp[k])
    /\ c_pc' = [c_pc EXCEPT ![k] = "returned"]
    /\ UNCHANGED <<cache_files, uuids, c_name, c_tmp, c_created, c_moveErr, c_result>>

\* simple_store.go:36-67: a new store; no upload in progress.
StoreInit ==
    /\ up_files = {}
    /\ cache_files \in SUBSET FileNames
    /\ uuids = 0
    /\ c_pc = [k \in Creators |-> "idle"]
    /\ c_name = [k \in Creators |-> ""]
    /\ c_tmp = [k \in Creators |-> NoTmp]
    /\ c_created = [k \in Creators |-> FALSE]
    /\ c_moveErr = [k \in Creators |-> "none"]
    /\ c_result = [k \in Creators |-> "none"]

\* The store while another component is explored.
StoreParked == StoreInit /\ cache_files = {}

\* ====================================================== passive filter

\* passive_filter.go:63 and :85: now.Sub(t) > f.config.FailTimeout
ExpiredSwapped(now, t, timeout) == t - now > timeout
ExpiredNever(now, t, timeout) == FALSE
Expired(now, t, timeout) == now - t > timeout

\* passive_filter.go:84-90: pop the expired failures off the front.
RECURSIVE PopExpired(_, _, _)
PopExpired(failures, now, timeout) ==
    IF Len(failures) > 0 /\ Expired(now, Head(failures), timeout)
    THEN PopExpired(Tail(failures), now, timeout)
    ELSE failures

\* passive_filter.go:61-68: the marks Run keeps (the expired ones are deleted).
KeptUnhealthy(now) ==
    {a \in DOMAIN f_unhealthy :
        ~Expired(now, f_unhealthy[a], f_config.FailTimeout)}

\* passive_filter.go:55-71: Run removes any unhealthy from addrs.
Run(addrs) ==
    LET kept == KeptUnhealthy(clk)
        result == addrs \ kept
    IN /\ f_unhealthy' = [a \in kept |-> f_unhealthy[a]]
       /\ runResult' = [time |-> clk, addrs |-> addrs, healthy |-> result]
       /\ UNCHANGED <<f_config, clk, f_failures, lastFailed, failedLog>>

\* passive_filter.go:96: len(failures) >= f.config.Fails
ReachedFailsOffByOne(n, fails) == n > fails
ReachedFails(n, fails) == n >= fails

\* passive_filter.go:74-101: Failed marks a request to addr as failed.
FailedCore(addr) ==
    LET now == clk
        failures == Append(PopExpired(f_failures[addr], now, f_config.FailTimeout), now)
    IN /\ f_unhealthy' =
            IF ReachedFails(Len(failures), f_config.Fails)
            THEN [a \in DOMAIN f_unhealthy \cup {addr} |->
                     IF a = addr THEN now ELSE f_unhealthy[a]]
            ELSE f_unhealthy
       /\ f_failures' = [f_failures EXCEPT ![addr] = failures]
       /\ lastFailed' = [lastFailed EXCEPT ![addr] = now]
       /\ runResult' = NoRun
       /\ UNCHANGED <<f_config, clk>>

RECURSIVE SumLen(_, _)
SumLen(fs, S) ==
    IF S = {} THEN 0
    ELSE LET a == CHOOSE x \in S : TRUE
         IN Len(fs[a]) + SumLen(fs, S \ {a})

\* A client reports a failed request (the model holds at most MaxFailures stamps).
Failed(addr) ==
    /\ SumLen(f_failures, Addrs) < MaxFailures
    /\ FailedCore(addr)
    /\ UNCHANGED failedLog

\* The mock clock advances by one second.
Tick ==
    /\ clk < MaxTime
    /\ clk' = clk + 1
    /\ runResult' = NoRun
    /\ UNCHANGED <<f_config, f_unhealthy, f_failures, lastFailed, failedLog>>

\* passive_filter.go:44-52: NewPassiveFilter.
PassiveInit(configs) ==
    /\ f_config \in configs
    /\ clk = 0
    /\ f_unhealthy = <<>>
    /\ f_failures = [a \in Addrs |-> <<>>]
    /\ lastFailed = [a \in Addrs |-> -1]
    /\ failedLog = <<>>
    /\ runResult = NoRun

PassiveConfigs ==
    [Fails : 1..MaxFails, FailTimeout : 1..MaxFailTimeout]

PassiveNext ==
    \/ Tick /\ UNCHANGED besidesPassive
    \/ \E a \in Addrs : Failed(a) /\ UNCHANGED besidesPassive
    \/ \E addrs \in SUBSET Addrs : Run(addrs) /\ UNCHANGED besidesPassive

PassiveSpecInit ==
    PassiveInit(PassiveConfigs) /\ StateInit({StateParked}) /\ RingParked /\ TrapParked
    /\ ReloadInit
    /\ MonitorInit
    /\ BlobInit
    /\ PatchInit
    /\ StoreParked

PassiveSpec == PassiveSpecInit /\ [][PassiveNext]_vars

\* ---- the scenario of spec section 8: Fails=3, FailTimeout=30s
ScenarioConfig == [Fails |-> 3, FailTimeout |-> 30]

ScenarioFailed(addr) ==
    /\ clk <= ScenarioFailPhase
    /\ Len(failedLog) < ScenarioConfig.Fails
    /\ FailedCore(addr)
    /\ failedLog' = Append(failedLog, <<addr, clk>>)

ScenarioTick ==
    /\ clk < ScenarioHorizon
    /\ clk' = clk + 1
    /\ runResult' = NoRun
    /\ UNCHANGED <<f_config, f_unhealthy, f_failures, lastFailed, failedLog>>

ScenarioNext ==
    \/ ScenarioTick /\ UNCHANGED besidesPassive
    \/ \E a \in {"h1", "h2"} : ScenarioFailed(a) /\ UNCHANGED besidesPassive
    \/ \E addrs \in SUBSET {"h1", "h2"} : Run(addrs) /\ UNCHANGED besidesPassive

ScenarioSpecInit ==
    PassiveInit({ScenarioConfig}) /\ StateInit({StateParked}) /\ RingParked /\ TrapParked
    /\ ReloadInit
    /\ MonitorInit
    /\ BlobInit
    /\ PatchInit
    /\ StoreParked

ScenarioSpec == ScenarioSpecInit /\ [][ScenarioNext]_vars

\* ---- the passive filter with the history of its Failed calls
\* Addresses that clients report in PassiveLogSpec.
LogAddrs == {"h1", "h2"}

\* passive_filter.go:74-101: Failed(addr); the call is appended to failedLog.
LoggedFailed(addr) ==
    /\ Len(failedLog) < MaxLogged
    /\ FailedCore(addr)
    /\ failedLog' = Append(failedLog, <<addr, clk>>)

PassiveLogNext ==
    \/ Tick /\ UNCHANGED besidesPassive
    \/ \E a \in LogAddrs : LoggedFailed(a) /\ UNCHANGED besidesPassive
    \/ \E addrs \in SUBSET LogAddrs : Run(addrs) /\ UNCHANGED besidesPassive

PassiveLogSpec == PassiveSpecInit /\ [][PassiveLogNext]_vars


StateNext ==
    \/ \E addrs \in SUBSET StateAddrs : sync(addrs) /\ UNCHANGED besidesState
    \/ \E a \in StateAddrs : failed(a) /\ UNCHANGED besidesState
    \/ \E a \in StateAddrs : passed(a) /\ UNCHANGED besidesState

StateSpecInit ==
    StateInit(StateConfigs) /\ PassiveInit({ScenarioConfig}) /\ RingParked /\ TrapParked
    /\ ReloadInit
    /\ MonitorInit
    /\ BlobInit
    /\ PatchInit
    /\ StoreParked

StateSpec == StateSpecInit /\ [][StateNext]_vars


RingNext ==
    \/ \E t \in Refreshers : RefreshRead(t) /\ UNCHANGED besidesRing
    \/ \E t \in Refreshers : RefreshCompare(t) /\ UNCHANGED besidesRing
    \/ \E t \in Refreshers : RefreshNotify(t) /\ UNCHANGED besidesRing
    \/ \E t \in Refreshers : RefreshPublish(t) /\ UNCHANGED besidesRing

RingSpecInit ==
    /\ RingInit(1..MaxMaxReplica, Memberships)
    /\ PassiveInit({ScenarioConfig})
    /\ StateInit({StateParked})
    /\ TrapParked
    /\ ReloadInit
    /\ MonitorInit
    /\ BlobInit
    /\ PatchInit
    /\ StoreParked

RingSpec == RingSpecInit /\ [][RingNext]_vars

\* One caller of Refresh at a time (Monitor's loop alone).
RingSerialNext ==
    \/ RefreshRead("monitor") /\ UNCHANGED besidesRing
    \/ RefreshCompare("monitor") /\ UNCHANGED besidesRing
    \/ RefreshNotify("monitor") /\ UNCHANGED besidesRing
    \/ RefreshPublish("monitor") /\ UNCHANGED besidesRing

RingSerialSpec == RingSpecInit /\ [][RingSerialNext]_vars


\* ---- IntervalTrap under concurrent Trap callers
TrapNext ==
    \/ TrapTick /\ UNCHANGED besidesTrap
    \/ \E g \in TrapCallers : TrapCall(g) /\ UNCHANGED besidesTrap
    \/ \E g \in TrapCallers : TrapRLock(g) /\ UNCHANGED besidesTrap
    \/ \E g \in TrapCallers : TrapReadCheck(g) /\ UNCHANGED besidesTrap
    \/ \E g \in TrapCallers : TrapLock(g) /\ UNCHANGED besidesTrap
    \/ \E g \in TrapCallers : TrapRecheck(g) /\ UNCHANGED besidesTrap
    \/ \E g \in TrapCallers : TaskReturns(g) /\ UNCHANGED besidesTrap
    \/ \E g \in TrapCallers : TrapSetPrev(g) /\ UNCHANGED besidesTrap

TrapSpecInit ==
    /\ TrapInit(1..MaxInterval)
    /\ PassiveInit({ScenarioConfig})
    /\ StateInit({StateParked})
    /\ RingParked
    /\ ReloadInit
    /\ MonitorInit
    /\ BlobInit
    /\ PatchInit
    /\ StoreParked

TrapSpec == TrapSpecInit /\ [][TrapNext]_vars


\* ---- concurrent Reload calls and scheduler operations
ReloadNext ==
    \/ \E p \in Reloaders, c \in Configs : ReloadLock(p, c) /\ UNCHANGED besidesReload
    \/ \E p \in Reloaders : ReloadStop(p) /\ UNCHANGED besidesReload
    \/ \E p \in Reloaders : ReloadConstruct(p) /\ UNCHANGED besidesReload
    \/ \E p \in Reloaders : ReloadConstructFails(p) /\ UNCHANGED besidesReload
    \/ \E p \in Reloaders : ReloadInstall(p) /\ UNCHANGED besidesReload
    \/ \E p \in Reloaders : ReloadStart(p) /\ UNCHANGED besidesReload
    \/ \E p \in Reloaders : ReloadStartFails(p) /\ UNCHANGED besidesReload
    \/ \E p \in Reloaders : ReloadUnlock(p) /\ UNCHANGED besidesReload
    \/ \E p \in Reloaders : ReloadReturn(p) /\ UNCHANGED besidesReload
    \/ \E p \in Reloaders : ReloadFatal(p) /\ UNCHANGED besidesReload
    \/ \E o \in Operators : OpStart(o) /\ UNCHANGED besidesReload
    \/ \E o \in Operators : OpEnd(o) /\ UNCHANGED besidesReload

ReloadSpecInit ==
    /\ ReloadInit
    /\ MonitorInit
    /\ BlobInit
    /\ PatchInit
    /\ StoreParked
    /\ PassiveInit({ScenarioConfig})
    /\ StateInit({StateParked})
    /\ RingParked
    /\ TrapParked

ReloadSpec == ReloadSpecInit /\ [][ReloadNext]_vars

\* The goroutine whose reload returned an error goes on to log.Fatalf.
ReloadFairSpec ==
    ReloadSpec /\ \A p \in Reloaders : WF_vars(ReloadFatal(p) /\ UNCHANGED besidesReload)


\* ---- Monitor, the only caller of Refresh, and the owner of the stop channel
\* The steps of the goroutine that runs Monitor.
MonitorStep ==
    \/ (MonitorSelect /\ UNCHANGED ringVars)
    \/ (MonitorStopCase /\ UNCHANGED ringVars)
    \/ (MonitorTimerCase /\ UNCHANGED ringVars)
    \/ MonitorRefreshRead
    \/ MonitorRefreshCompare
    \/ MonitorRefreshNotify
    \/ MonitorRefreshPublish

MonitorNext ==
    \/ MonitorSelect /\ UNCHANGED ringVars /\ UNCHANGED besidesRingAndMonitor
    \/ MonitorStopCase /\ UNCHANGED ringVars /\ UNCHANGED besidesRingAndMonitor
    \/ MonitorTimerCase /\ UNCHANGED ringVars /\ UNCHANGED besidesRingAndMonitor
    \/ MonitorRefreshRead /\ UNCHANGED besidesRingAndMonitor
    \/ MonitorRefreshCompare /\ UNCHANGED besidesRingAndMonitor
    \/ MonitorRefreshNotify /\ UNCHANGED besidesRingAndMonitor
    \/ MonitorRefreshPublish /\ UNCHANGED besidesRingAndMonitor
    \/ TimerFires /\ UNCHANGED ringVars /\ UNCHANGED besidesRingAndMonitor
    \/ CloseStop /\ UNCHANGED ringVars /\ UNCHANGED besidesRingAndMonitor

MonitorSpecInit ==
    /\ MonitorInit
    /\ BlobInit
    /\ PatchInit
    /\ StoreParked
    /\ RingInit({1}, Memberships)
    /\ PassiveInit({ScenarioConfig})
    /\ StateInit({StateParked})
    /\ TrapParked
    /\ ReloadInit

\* Go runs every runnable goroutine: the goroutine in Monitor takes its next
\* step whenever it has one.
MonitorSpec ==
    MonitorSpecInit /\ [][MonitorNext]_vars
        /\ WF_vars(MonitorStep /\ UNCHANGED besidesRingAndMonitor)

\* ---- requests to patch the scheduler configuration, handled concurrently
PatchNext ==
    \/ \E p \in Reloaders, body \in Bodies :
           PatchReceive(p, body) /\ UNCHANGED reloadVars /\ UNCHANGED besidesReloadAndPatch
    \/ \E p \in Reloaders :
           PatchDecode(p) /\ UNCHANGED reloadVars /\ UNCHANGED besidesReloadAndPatch
    \/ \E p \in Reloaders :
           PatchCallReload(p) /\ UNCHANGED reloadVars /\ UNCHANGED besidesReloadAndPatch
    \/ \E p \in Reloaders : PatchReloadLock(p) /\ UNCHANGED besidesReloadAndPatch
    \/ \E p \in Reloaders : ReloadStop(p) /\ UNCHANGED besidesReload
    \/ \E p \in Reloaders : ReloadConstruct(p) /\ UNCHANGED besidesReload
    \/ \E p \in Reloaders : ReloadConstructFails(p) /\ UNCHANGED besidesReload
    \/ \E p \in Reloaders : ReloadInstall(p) /\ UNCHANGED besidesReload
    \/ \E p \in Reloaders : ReloadStart(p) /\ UNCHANGED besidesReload
    \/ \E p \in Reloaders : ReloadStartFails(p) /\ UNCHANGED besidesReload
    \/ \E p \in Reloaders : ReloadUnlock(p) /\ UNCHANGED besidesReload
    \/ \E p \in Reloaders : PatchReturn(p) /\ UNCHANGED besidesReloadAndPatch
    \/ \E p \in Reloaders : ReloadFatal(p) /\ UNCHANGED besidesReload

PatchSpecInit ==
    /\ PatchInit
    /\ StoreParked
    /\ ReloadInit
    /\ BlobInit
    /\ MonitorInit
    /\ RingParked
    /\ PassiveInit({ScenarioConfig})
    /\ StateInit({StateParked})
    /\ TrapParked

PatchSpec == PatchSpecInit /\ [][PatchNext]_vars

\* ---- requests for blobs, handled concurrently
BlobNext ==
    \/ \E b \in BlobRequests, res \in {"ok", "namespace: error", "digest: 400"} :
           BlobParse(b, res) /\ UNCHANGED besidesBlob
    \/ \E b \in BlobRequests, res \in LookupResults :
           BlobLookup(b, res) /\ UNCHANGED besidesBlob
    \/ \E b \in BlobRequests, res \in DownloadResults :
           BlobDownload(b, res) /\ UNCHANGED besidesBlob
    \/ \E b \in BlobRequests, res \in LookupResults :
           BlobRelookup(b, res) /\ UNCHANGED besidesBlob
    \/ \E b \in BlobRequests : BlobCopyChunk(b) /\ UNCHANGED besidesBlob
    \/ \E b \in BlobRequests, res \in {"ok", "copy file: error"} :
           BlobCopyReturns(b, res) /\ UNCHANGED besidesBlob

BlobSpecInit ==
    /\ BlobInit
    /\ PatchInit
    /\ StoreParked
    /\ MonitorInit
    /\ RingParked
    /\ PassiveInit({ScenarioConfig})
    /\ StateInit({StateParked})
    /\ TrapParked
    /\ ReloadInit

BlobSpec == BlobSpecInit /\ [][BlobNext]_vars

\* ---- concurrent CreateCacheFile calls
StoreNext ==
    \/ \E k \in Creators, name \in FileNames : CreateCall(k, name) /\ UNCHANGED besidesStore
    \/ \E k \in Creators, ok \in BOOLEAN : CreateUpload(k, ok) /\ UNCHANGED besidesStore
    \/ \E k \in Creators, ok \in BOOLEAN : CreateWriter(k, ok) /\ UNCHANGED besidesStore
    \/ \E k \in Creators, ok \in BOOLEAN : CreateCopy(k, ok) /\ UNCHANGED besidesStore
    \/ \E k \in Creators, ok \in BOOLEAN : MoveGetFilePath(k, ok) /\ UNCHANGED besidesStore
    \/ \E k \in Creators, ok \in BOOLEAN : MoveFileFrom(k, ok) /\ UNCHANGED besidesStore
    \/ \E k \in Creators : MoveDeferred(k) /\ UNCHANGED besidesStore
    \/ \E k \in Creators : CreateAfterMove(k) /\ UNCHANGED besidesStore
    \/ \E k \in Creators : CreateDeferred(k) /\ UNCHANGED besidesStore

StoreSpecInit ==
    /\ StoreInit
    /\ PatchInit
    /\ ReloadInit
    /\ BlobInit
    /\ MonitorInit
    /\ RingParked
    /\ PassiveInit({ScenarioConfig})
    /\ StateInit({StateParked})
    /\ TrapParked

StoreSpec == StoreSpecInit /\ [][StoreNext]_vars

\* ============================================================== claims

\* The scenario's reports: Failed("h1") at t=0s, 1s and 2s, and no other.
ScenarioHappened == failedLog = << <<"h1", 0>>, <<"h1", 1>>, <<"h1", 2>> >>

\* After the scenario's reports, Run({"h1","h2"}) at second t returns result.
ScenarioRunAt(t, result) ==
    (ScenarioHappened /\ runResult.time = t /\ runResult.addrs = {"h1", "h2"})
        => runResult.healthy = result

\* C1 (as stated): with Fails=3 and FailTimeout=30s, after Failed("h1") at
\* t=0s, 1s and 2s, Run({"h1","h2"}) at t=3s returns {"h2"} and at t=31s
\* returns {"h1","h2"}.
C1_Original ==
    /\ ScenarioRunAt(3, {"h2"})
    /\ ScenarioRunAt(31, {"h1", "h2"})

\* C1 (amended): after the same reports, Run({"h1","h2"}) returns {"h2"} at
\* t=3s and still at t=31s and t=32s; it returns {"h1","h2"} at t=33s, the
\* first second more than FailTimeout after the mark of t=2s.
C1_Amended ==
    /\ ScenarioRunAt(3, {"h2"})
    /\ ScenarioRunAt(31, {"h2"})
    /\ ScenarioRunAt(32, {"h2"})
    /\ ScenarioRunAt(33, {"h1", "h2"})

C1_Witness ==
    /\ ScenarioHappened
    /\ runResult = [time |-> 33, addrs |-> {"h1", "h2"}, healthy |-> {"h1", "h2"}]

\* C2 (as stated): if the most recent Failed(a), if any, is at least
\* FailTimeout old, Run(addrs) returns a for every addrs that contains a.
C2_Original ==
    \A a \in runResult.addrs :
        (lastFailed[a] = -1 \/ runResult.time - lastFailed[a] >= f_config.FailTimeout)
            => a \in runResult.healthy

\* C2 (amended): if the most recent Failed(a), if any, is more than
\* FailTimeout old, Run(addrs) returns a for every addrs that contains a.
C2_Amended ==
    \A a \in runResult.addrs :
        (lastFailed[a] = -1 \/ runResult.time - lastFailed[a] > f_config.FailTimeout)
            => a \in runResult.healthy

\* An address whose last report reached the threshold, and is back once the
\* mark is more than FailTimeout old.
C2_Witness ==
    \E a \in runResult.addrs :
        /\ lastFailed[a] >= 0
        /\ Len(f_failures[a]) >= f_config.Fails
        /\ runResult.time - lastFailed[a] > f_config.FailTimeout
        /\ a \in runResult.healthy

\* The members of the ring in the rendezvous order of d, best first.
Ranked(d) ==
    LET IsMember(a) == a \in r_addrs
    IN SelectSeq(d, IsMember)

\* The healthy addresses of seq, in its order.
HealthyOf(seq) ==
    LET IsHealthy(a) == a \in r_healthy
    IN SelectSeq(seq, IsHealthy)

\* C3: whenever the membership is non-empty, Locations(d) returns at least one
\* address for every digest d, whatever the healthy set is.
C3_NonEmpty ==
    r_addrs # {} =>
        \A d \in Digests : Locations(d).outcome = "ok" /\ Len(Locations(d).locs) >= 1

\* C4: with an empty healthy set and a non-empty membership, Locations(d)
\* returns exactly one address, the top-ranked member for d.
C4_Fallback ==
    (r_healthy = {} /\ r_addrs # {}) =>
        \A d \in Digests : Locations(d) = [outcome |-> "ok", locs |-> <<Ranked(d)[1]>>]

\* C5: with a non-empty healthy set, Locations(d) returns, in rank order, the
\* healthy addresses among the MaxReplica top-ranked members for d, or, when
\* none of those is healthy, the highest-ranked healthy member alone.
C5_Replicas ==
    r_healthy # {} =>
        \A d \in Digests :
            LET top == HealthyOf(FirstN(Ranked(d), r_config.MaxReplica))
            IN Locations(d) =
                 [outcome |-> "ok",
                  locs |-> IF top # <<>> THEN top ELSE FirstN(HealthyOf(Ranked(d)), 1)]

\* C6: under any interleaving of Refresh calls, the published membership,
\* hash nodes and healthy set belong together: the hash holds exactly the
\* members, and Locations never meets its invariant violation (log.Fatal).
C6_AtomicPublish ==
    /\ r_hash.nodes = r_addrs
    /\ r_healthy \subseteq r_addrs
    /\ \A d \in Digests : Locations(d).outcome # "fatal"

\* C11: two rings with identical (members, weights) return the same
\* Locations(d) for every digest d: the ring answers as a ring that New has
\* just built over the same members (and the same healthy set and MaxReplica).
C11_Determinism ==
    \A d \in Digests :
        Locations(d) = LocationsOf(NewRing(r_config, r_addrs, r_healthy), d)

\* The step in which caller t's Refresh publishes (part_000:172-176).
Publishes(t) == pc[t] = "compared" /\ pc'[t] = "idle"

\* C12: a Refresh notifies every registered watcher exactly once, with the
\* newly resolved set, if and only if that set differs from the ring's current
\* membership; a Refresh whose membership is unchanged notifies no watcher and
\* keeps the existing rendezvous structure.
C12_Step ==
    \A t \in Refreshers :
        Publishes(t) =>
            IF r_addrs' # r_addrs
            THEN \A w \in Watchers : noted[t][w] = <<r_addrs'>>
            ELSE (\A w \in Watchers : noted[t][w] = <<>>) /\ r_hash' = r_hash

C12_Notify == [][C12_Step]_vars

\* C13: under concurrent Trap callers the task never runs concurrently with
\* itself, and a run starts only after more than interval has elapsed since
\* the previous run returned (since construction, for the first run).
C13_OncePerInterval ==
    /\ Cardinality(running) <= 1
    /\ running # {} => runStart > lastDone + t_interval

\* A second run is in progress while the other caller, which also passed the
\* read check, waits for the write lock.
C13_Witness ==
    /\ runs >= 1
    /\ running # {}
    /\ \E g \in TrapCallers : tpc[g] = "wantLock"

\* Callers between rs.mu.Lock() and the deferred Unlock of reload.
InReload == {p \in Reloaders :
                rpc[p] \in {"locked", "stopped", "built", "installed", "started"}}

\* Callers that have stopped the scheduler they found.
PastStop == {p \in Reloaders : rpc[p] \in {"stopped", "built", "installed", "started"}}

\* No reload has failed.
NoFailure == ~aborted /\ \A p \in Reloaders : rpc[p] # "failing"

C15_Step ==
    \A i \in SchedIds :
        /\ (scheds[i].state = "none" /\ scheds'[i].state # "none") =>
              scheds[rs_scheduler].state = "stopped"
        /\ (scheds[i].state # "started" /\ scheds'[i].state = "started") =>
              rs_scheduler = i /\ scheds[i].state = "built"

\* C15: within a reload the current scheduler is stopped before the new one is
\* constructed and the new one is started only after it has been installed;
\* at every moment at most one scheduler is started and not stopped.
C15_Ordering == [](Cardinality(Started) <= 1) /\ [][C15_Step]_vars

\* A second reload has started its scheduler after stopping the scheduler the
\* first reload started.
C15_Witness ==
    /\ lockSeq >= 2
    /\ Started = {rs_scheduler}
    /\ scheds[rs_scheduler].builtBy = lockSeq
    /\ scheds[lockSeq - 1].state = "stopped"

C16_Step ==
    /\ ~aborted
    /\ \A p \in Reloaders : rpc[p] = "failing" => rpc'[p] = "failing"
    /\ \A i \in SchedIds : scheds[i].state = "stopped" => scheds'[i].state = "stopped"

\* C16: a Reload whose construct or start step failed never returns to its
\* caller: the process is aborted (nothing runs after that), and a stopped
\* scheduler is never started again.
C16_Fatal ==
    /\ [][C16_Step]_vars
    /\ \A p \in Reloaders : (rpc[p] = "failing") ~> aborted

\* The process was aborted by a failed reload, the scheduler it stopped still
\* stopped.
C16_Witness ==
    /\ aborted
    /\ \E p \in Reloaders : rpc[p] = "failing" /\ scheds[rl_s[p]].state = "stopped"

\* C17: an operation started after Reload(newConfig) returned is executed by
\* the scheduler constructed from newConfig, which has been started, and not
\* by the scheduler that Reload stopped.
C17_Original ==
    \A o \in Operators :
        (opc[o] = "executing" /\ opView[o].after # NoCall) =>
            /\ scheds[opView[o].sched].config = opView[o].after.config
            /\ opView[o].state \in {"started", "stopped"}
            /\ scheds[opView[o].sched].builtBy >= opView[o].after.order

\* C17 (amended): an operation started after Reload(newConfig) returned, and
\* before any other Reload call has acquired the lock after that one, is
\* executed by the scheduler that call constructed from newConfig, which is
\* started.
C17_Amended ==
    \A o \in Operators :
        (/\ opc[o] = "executing"
         /\ opView[o].after # NoCall
         /\ opView[o].locks = opView[o].after.order) =>
            /\ scheds[opView[o].sched].builtBy = opView[o].after.order
            /\ scheds[opView[o].sched].config = opView[o].after.config
            /\ opView[o].state = "started"

\* An operation runs on the scheduler of the second of two reloads.
C17_Witness ==
    \E o \in Operators :
        /\ opc[o] = "executing"
        /\ opView[o].after.order >= 2
        /\ opView[o].locks = opView[o].after.order

\* C18: Monitor calls Refresh once per elapsed RefreshInterval and does not
\* return while the stop channel is open; once the stop channel is closed,
\* Monitor eventually returns.
C18_Monitor ==
    /\ [](mon = "returned" => stop = "closed")
    /\ [](refreshes <= fires /\ fires <= refreshes + 1)
    /\ (mon = "blocked" /\ timerFired /\ stop = "open") ~> (mon = "refresh" \/ stop = "closed")
    /\ (stop = "closed") ~> (mon = "returned")

\* Monitor has returned after calling Refresh at least twice.
C18_Witness ==
    /\ mon = "returned"
    /\ refreshes >= 2

\* Number of Failed(a) calls among the first k whose time lies within
\* FailTimeout of (and not after) time tc.
WindowCount(a, tc, k) ==
    Cardinality({j \in 1..k :
        /\ failedLog[j][1] = a
        /\ failedLog[j][2] <= tc
        /\ tc - failedLog[j][2] <= f_config.FailTimeout})

\* The k-th Failed call was for a and found at least Fails failures of a,
\* itself included, within FailTimeout of it.
ThresholdCall(a, k) ==
    /\ failedLog[k][1] = a
    /\ WindowCount(a, failedLog[k][2], k) >= f_config.Fails

\* Every FailTimeout-long window holds fewer than Fails failures of a.
AlwaysBelow(a) ==
    \A k \in 1..Len(failedLog) :
        failedLog[k][1] = a =>
            WindowCount(a, failedLog[k][2], Len(failedLog)) < f_config.Fails

\* C19: Run excludes an address only if some Failed call for it, made no more
\* than FailTimeout ago, found at least Fails failures of it within
\* FailTimeout of that call; an address with fewer than Fails failures in
\* every FailTimeout-long window is never excluded.
C19_Threshold ==
    runResult # NoRun =>
        \A a \in runResult.addrs \ runResult.healthy :
            /\ \E k \in 1..Len(failedLog) :
                  /\ ThresholdCall(a, k)
                  /\ runResult.time - failedLog[k][2] <= f_config.FailTimeout
            /\ ~AlwaysBelow(a)

\* Run excludes h1 after three reports of which the first had expired when
\* the third reached the threshold of two.
C19_Witness ==
    /\ runResult # NoRun
    /\ "h1" \in runResult.addrs \ runResult.healthy
    /\ f_config.Fails = 2
    /\ Len(failedLog) = 3
    /\ \A k \in 1..3 : failedLog[k][1] = "h1"
    /\ failedLog[3][2] - failedLog[1][2] > f_config.FailTimeout

\* One call of passed or failed leaves the trend on its own side of zero and
\* changes the health of its address only at the end of a long enough run; a
\* sync changes the health of no address that stays a member.
ConsecutiveStep ==
    LET a == lastOp'.addr
    IN /\ lastOp'.op = "passed" => TrendOf(s_trend', a) >= 1
       /\ lastOp'.op = "failed" => TrendOf(s_trend', a) <= -1
       /\ lastOp'.op \in {"passed", "failed"} =>
            \A b \in StateAddrs :
                /\ (b \in s_healthy /\ b \notin s_healthy') =>
                      /\ lastOp' = [op |-> "failed", addr |-> b]
                      /\ row'[b] <= -s_config.Fails
                /\ (b \notin s_healthy /\ b \in s_healthy') =>
                      /\ lastOp' = [op |-> "passed", addr |-> b]
                      /\ row'[b] >= s_config.Passes
       /\ lastOp'.op = "sync" =>
            \A b \in members \cap members' : b \in s_healthy' <=> b \in s_healthy

\* C20: passed(addr) leaves the trend >= 1 and failed(addr) leaves it <= -1,
\* so a failed call makes a healthy host unhealthy only as the last of Fails
\* failed calls with no passed call in between, and a passed call makes an
\* unhealthy host healthy only as the last of Passes passed calls with no
\* failed call in between.
C20_Consecutive == [][ConsecutiveStep]_vars

\* Fails=2: h1 failed once, a sync came, and its second failure in a row has
\* just made it unhealthy.
C20_Witness ==
    /\ s_config = [Fails |-> 2, Passes |-> 2]
    /\ lastOp = [op |-> "failed", addr |-> "h1"]
    /\ row["h1"] = -2
    /\ streak["h1"] = -1
    /\ TrendOf(s_trend, "h1") = -2
    /\ "h1" \in members /\ "h1" \notin s_healthy

\* The schedulers that were handed a queue.
WithQueue == {i \in SchedIds : scheds[i].queue >= 0}

\* A step that installs a scheduler keeps the dependencies of the one it
\* replaces and takes the configuration of its reload; a step that obtains a
\* queue from the factory obtains one no scheduler holds and gives it to the
\* installed scheduler, which had none.
C21_Step ==
    /\ rs_scheduler' # rs_scheduler =>
          /\ scheds[rs_scheduler'].deps = scheds[rs_scheduler].deps
          /\ \E p \in Reloaders :
                /\ rpc[p] = "built"
                /\ scheds[rs_scheduler'].config = rl_config[p]
    /\ aq_made' # aq_made =>
          /\ aq_made' = aq_made + 1
          /\ scheds[rs_scheduler].queue = -1
          /\ scheds'[rs_scheduler].queue = aq_made'
          /\ \A j \in SchedIds : scheds[j].queue # aq_made'
    /\ \A i \in SchedIds :
          /\ scheds[i].state # "none" => scheds'[i].deps = scheds[i].deps
          /\ scheds[i].queue >= 0 => scheds'[i].queue = scheds[i].queue

\* C21: the scheduler a reload installs shares the torrent archive, peer
\* context, announce client, stats scope and network-events sink of the
\* scheduler it replaces; its configuration is the reload's, and its announce
\* queue is a fresh one from the queue factory, obtained once per reload.
C21_Frame ==
    /\ [](/\ aq_made <= lockSeq
          /\ \A i, j \in WithQueue : scheds[i].queue = scheds[j].queue => i = j)
    /\ [][C21_Step]_vars

\* The second reload's scheduler runs with the original dependencies, another
\* configuration than the scheduler it replaced, and the second queue made.
C21_Witness ==
    /\ rs_scheduler = 2
    /\ scheds[2].state = "started"
    /\ scheds[2].deps = Deps0
    /\ scheds[2].config # scheds[1].config
    /\ scheds[2].queue = 2
    /\ scheds[1].queue = 1

\* C22: the blob handler calls the scheduler's Download only after a first
\* cache lookup that failed with not-exist or an in-download error, and at most
\* once; a chunk of the blob is written to the response only after the first
\* lookup succeeded, or Download returned nil and the second lookup succeeded;
\* after a Download error nothing is written, and ErrTorrentNotFound is
\* answered with 404.
C22_Download ==
    \A b \in BlobRequests :
        /\ Len(b_download[b]) <= 1
        /\ b_download[b] # <<>> => b_lookup[b] \in {"notExist", "inDownload"}
        /\ (b_written[b] > 0 \/ b_pc[b] = "copying") =>
                \/ b_lookup[b] = "hit"
                \/ b_download[b] = <<"ok">> /\ b_lookup2[b] = "hit"
        /\ (b_download[b] # <<>> /\ b_download[b] # <<"ok">>) =>
                /\ b_written[b] = 0
                /\ b_pc[b] = "returned"
                /\ b_result[b] = "404" <=> b_download[b] = <<"ErrTorrentNotFound">>

\* One request streamed the whole blob after Download and a second lookup,
\* another was answered 404 after ErrTorrentNotFound with nothing written.
C22_Witness ==
    /\ b_lookup["b1"] = "notExist" /\ b_download["b1"] = <<"ok">>
    /\ b_written["b1"] = MaxChunks /\ b_result["b1"] = "ok"
    /\ b_lookup["b2"] = "inDownload" /\ b_download["b2"] = <<"ErrTorrentNotFound">>
    /\ b_written["b2"] = 0 /\ b_result["b2"] = "404"

\* C23: a request whose body does not decode as a Config is answered with 400
\* and makes no Reload call: the step that answers it changes nothing of the
\* reloadable scheduler, and the request never holds the reload lock; a request
\* whose body decodes makes exactly one Reload call, with the decoded
\* configuration, before it is answered.
DecodesAsConfig(body) == body \in {"{c1}", "{c2}"}

C23_Step ==
    \A p \in Reloaders :
        (p_status'[p] = 400 /\ p_status[p] # 400) => UNCHANGED reloadVars

C23_Requests ==
    \A p \in Reloaders :
        /\ p_reloads[p] <= 1
        /\ (p_pc[p] # "idle" /\ ~DecodesAsConfig(p_body[p])) =>
                /\ p_reloads[p] = 0
                /\ rpc[p] = "idle" /\ rs_mu # p
                /\ p_pc[p] = "returned" => p_status[p] = 400
        /\ p_status[p] = 400 => ~DecodesAsConfig(p_body[p])
        /\ p_reloads[p] = 1 =>
                /\ DecodesAsConfig(p_body[p])
                /\ rpc[p] # "idle" => "{" \o rl_config[p] \o "}" = p_body[p]
        /\ (p_pc[p] = "returned" /\ DecodesAsConfig(p_body[p])) =>
                p_reloads[p] = 1 /\ p_status[p] = 200

C23_AllOrNothing ==
    /\ []C23_Requests
    /\ [][C23_Step]_vars

\* A request with a truncated body was answered 400 without a Reload call, a
\* request with a decodable body was answered after its one Reload call, and
\* the running scheduler has the configuration of the latter.
C23_Witness ==
    /\ p_body["p1"] = "{c1" /\ p_status["p1"] = 400 /\ p_reloads["p1"] = 0
    /\ p_body["p2"] = "{c2}" /\ p_status["p2"] = 200 /\ p_reloads["p2"] = 1
    /\ scheds[rs_scheduler].config = "c2"

\* A step with which caller g returns from Trap.
TrapReturns(g) == tpc[g] # "idle" /\ tpc'[g] = "idle"

\* C24 as stated: when a Trap call that started with more than interval elapsed
\* since the recorded run returns, a task run has returned later than the
\* recorded run time of the call's start plus interval; a Trap call that
\* started with the interval not elapsed returns without having run the task
\* and with the recorded run time it started with.
C24_Ready(g) ==
    (TrapReturns(g) /\ t_call[g].ready) =>
        lastDone' > t_call[g].prev + t_interval

C24_NotReadyStep ==
    \A g \in TrapCallers :
        (TrapReturns(g) /\ ~t_call[g].ready) =>
            /\ tpc[g] # "ran"
            /\ t_prev' = t_call[g].prev

C24_Original ==
    /\ [][\A g \in TrapCallers : C24_Ready(g)]_vars
    /\ [][C24_NotReadyStep]_vars

\* C24 amended: the second half holds of the Trap call whose ready check under
\* the read lock finds the interval not elapsed: it returns at that check,
\* without a task run and with the recorded run time unchanged since it took
\* the read lock.
C24_CheckStep ==
    \A g \in TrapCallers :
        /\ C24_Ready(g)
        /\ (tpc[g] = "rlocked" /\ tpc'[g] # "rlocked" /\ t_now <= t_prev + t_interval) =>
                /\ TrapReturns(g)
                /\ UNCHANGED <<t_prev, runs, lastDone, running>>
        /\ tpc[g] = "rlocked" => UNCHANGED t_prev

C24_Amended == [][C24_CheckStep]_vars

\* A call that started with the interval elapsed is about to return after the
\* run of a concurrent call, and another call that started with the interval
\* not elapsed is at its ready check.
C24_Witness ==
    \E g, h \in TrapCallers :
        /\ tpc[g] = "locked" /\ t_call[g].ready /\ t_now <= t_prev + t_interval
        /\ lastDone > t_call[g].prev + t_interval
        /\ tpc[h] = "called" /\ ~t_call[h].ready

\* C25: in every state reached by any interleaving of sync, passed and failed
\* calls, the healthy set getHealthy returns is a subset of the membership of
\* the most recent sync.
C25_Coherent == getHealthy \subseteq members

\* The elements of a sequence.
Range(seq) == {seq[i] : i \in DOMAIN seq}

\* The step in which caller t's Refresh calls Notify on a watcher.
Notifies(t) == pc[t] = "notify" /\ noted'[t] # noted[t]

\* C26: when a Refresh calls a watcher's Notify(latest), the ring's Contains
\* and Locations answer from the membership before that Refresh (the one it
\* compared latest with), not from latest; and a membership becomes visible
\* to the readers of the ring only in the publishing step of a Refresh whose
\* Notify calls for that membership have all returned.
C26_Step ==
    \A t \in Refreshers :
        /\ Notifies(t) =>
                /\ \A a \in Addrs : Contains(a) <=> a \in prior[t]
                /\ \A d \in Digests : Range(Locations(d).locs) \subseteq prior[t]
        /\ (Publishes(t) /\ r_addrs' # r_addrs) =>
                \A w \in Watchers : noted[t][w] = <<r_addrs'>>

C26_NotifyFirst == [][C26_Step]_vars

C7_SyncRemoves ==
    lastOp.op = "sync" => (s_all \cup s_healthy \cup DOMAIN s_trend) \subseteq members

\* C8: every address of latest that was not a member before the sync is
\* healthy immediately after sync(latest), re-introduced addresses included.
C8_SyncInserts ==
    [][lastOp'.op = "sync" => (members' \ members) \subseteq s_healthy']_vars

\* One call of passed or failed changes healthy exactly at the threshold, and
\* Passes passes (Fails fails) in a row leave the address healthy (unhealthy).
ThresholdStep ==
    LET a == lastOp'.addr
    IN /\ lastOp'.op = "passed" =>
            s_healthy' = IF TrendOf(s_trend', a) = s_config.Passes
                         THEN s_healthy \cup {a} ELSE s_healthy
       /\ lastOp'.op = "failed" =>
            s_healthy' = IF TrendOf(s_trend', a) = -s_config.Fails
                         THEN s_healthy \ {a} ELSE s_healthy
       /\ \A b \in StateAddrs :
            /\ streak'[b] >= s_config.Passes => b \in s_healthy'
            /\ streak'[b] <= -s_config.Fails => b \notin s_healthy'

\* C9: passed(addr) puts addr into healthy exactly when its trend reaches
\* +Passes, failed(addr) removes it exactly when the trend reaches -Fails, no
\* other passed/failed call changes healthy; so pass, pass makes the address
\* healthy, fail, fail unhealthy and pass, pass healthy again (Fails=Passes=2).
C9_Thresholds == [][ThresholdStep]_vars

\* Fails=Passes=2: the second fail in a row has just made a member unhealthy.
C9_Witness ==
    /\ s_config = [Fails |-> 2, Passes |-> 2]
    /\ lastOp = [op |-> "failed", addr |-> "h1"]
    /\ streak["h1"] = -2
    /\ "h1" \in s_all /\ "h1" \notin s_healthy
    /\ streak["h2"] = 2 /\ "h2" \in s_healthy

\* C10: every stored trend counter lies in [-Fails, +Passes].
C10_TrendBound ==
    \A a \in DOMAIN s_trend :
        -s_config.Fails <= s_trend[a] /\ s_trend[a] <= s_config.Passes

\* Both ends of the range are reached.
C10_Witness ==
    /\ s_config = [Fails |-> 2, Passes |-> 2]
    /\ DOMAIN s_trend = {"h1", "h2"}
    /\ s_trend["h1"] = -2 /\ s_trend["h2"] = 2

=============================================================================
